---- MODULE Spec2Model ----
(***************************************************************************)
(* A model of the tracking core of the Fil memory profiler:                *)
(*   memapi/src/memorytracking.rs  (CallSites, Callstack,                  *)
(*                                  AllocationTracker and the public API)  *)
(*   memapi/src/rangemap.rs        (Range, RangeMap, and the per-address   *)
(*                                  StupidRangeMap of its tests)           *)
(*                                                                         *)
(* Strings are sequences of one-character strings, so that rendering a     *)
(* call stack is a real concatenation: two different call stacks may       *)
(* render to the same string.                                              *)
(***************************************************************************)
EXTENDS Integers, Sequences, FiniteSets, TLC

(***************************************************************************)
(* Bounds of the model.                                                    *)
(***************************************************************************)
\* Addresses handed to add_allocation / free_allocation are 1..MaxAddress.
MaxAddress == 2
\* Sizes handed to add_allocation are 1..MaxSize (an allocation record's
\* size is a positive byte count).
MaxSize == 2
\* add_allocation is called only while the running total stays <= MaxBytes;
\* usize::MAX (2^64 - 1) is out of reach of these totals, so `+=` at
\* memorytracking.rs:139 never overflows in the model.
MaxBytes == 2
\* start_call is called only while the thread's call stack is shorter.
MaxDepth == 2

\* RangeMap.add / remove are called with start in 0..MaxStart and length in
\* 0..MaxLength, and add only while fewer than MaxRanges intervals are stored.
MaxStart == 1
MaxLength == 3
MaxRanges == 2

\* With two threads taking the mutex: addresses 1..LockMaxAddress, sizes
\* 1..LockMaxSize; add_allocation is called only while the running total
\* stays <= LockMaxBytes and start_call only while the thread's call stack
\* is shorter than LockMaxDepth.
LockMaxAddress == 1
LockMaxSize == 1
LockMaxBytes == 2
LockMaxDepth == 1

VARIABLES
    ALLOCATIONS,        \* the AllocationTracker behind the mutex (memorytracking.rs:242-244)
    THREAD_CALLSTACK,   \* thread |-> that thread's Callstack.calls (memorytracking.rs:49)
    last,               \* the most recent call on the tracker and what it returned
    real_rangemap,      \* RangeMap.ranges: a sequence of <<Range, value>> (rangemap.rs:44-46)
    stupid_rangemap,    \* StupidRangeMap.items: address |-> value (rangemap.rs:140-142)
    range_last,         \* the most recent call on the two range maps and what each returned
    adds_disjoint,      \* no add so far covered an address stored at the time of the add
    callsites,          \* a CallSites registry driven on its own (memorytracking.rs:395)
    handed_out,         \* the <<call site, identifier>> pairs that registry has returned
    id_last,            \* the most recent call on that registry and what it returned
    mutex,              \* the Mutex around ALLOCATIONS: its holder and its poison flag
    pc,                 \* thread |-> the public function it is in and the line it is at
    serial              \* the tracker the calls give when run whole, in lock order

tracker_vars == <<ALLOCATIONS, THREAD_CALLSTACK, last>>
rangemap_vars == <<real_rangemap, stupid_rangemap, range_last, adds_disjoint>>
registry_vars == <<callsites, handed_out, id_last>>
lock_vars == <<mutex, pc, serial>>
vars == <<ALLOCATIONS, THREAD_CALLSTACK, last,
          real_rangemap, stupid_rangemap, range_last, adds_disjoint,
          callsites, handed_out, id_last,
          mutex, pc, serial>>
\* What an action on the tracker, on the range maps, on the registry leaves
\* alone.
non_tracker_vars == <<rangemap_vars, registry_vars, lock_vars>>
non_rangemap_vars == <<tracker_vars, registry_vars, lock_vars>>
non_registry_vars == <<tracker_vars, rangemap_vars, lock_vars>>
non_lock_vars == <<last, rangemap_vars, registry_vars>>

\* The threads of the monitored process that call into the tracker.
Threads == {"t1"}
\* The threads of the monitored process when calls overlap in time.
LockThreads == {"t1", "t2"}

Addresses == 1..MaxAddress
Sizes == 1..MaxSize
\* free_allocation is also called on an address that is never allocated.
FreedAddresses == Addresses \cup {MaxAddress + 1}

(***************************************************************************)
(* CallSite (memorytracking.rs:51-71)                                      *)
(***************************************************************************)
\* CallSite::new: a pair of names, compared by value.
CallSite_new(module_name, function_name) ==
    [module_name |-> module_name, function_name |-> function_name]

\* The call sites the monitored program passes to start_call: two different
\* values whose Display output is the same string, "a:b:c".
CallSiteValues ==
    { CallSite_new(<<"a">>, <<"b", ":", "c">>),
      CallSite_new(<<"a", ":", "b">>, <<"c">>) }

\* impl fmt::Display for CallSite: "{}:{}".
CallSite_fmt(call_site) ==
    call_site.module_name \o <<":">> \o call_site.function_name

(***************************************************************************)
(* Callstack (memorytracking.rs:17-47)                                     *)
(***************************************************************************)
Callstack_new == << >>

Callstack_start_call(calls, function_id) == Append(calls, function_id)

\* Vec::pop on an empty vector returns None and changes nothing.
Callstack_finish_call(calls) ==
    IF calls = << >> THEN calls ELSE SubSeq(calls, 1, Len(calls) - 1)

\* The text as_string gives an empty call stack, kept as one token: every
\* rendering of a non-empty stack holds a ":" and so differs from it.
NoPythonStack == <<"[No Python stack]">>

\* itertools' join(";") over the Display of the call sites from index i on.
RECURSIVE JoinFrom(_, _, _)
JoinFrom(calls, id_to_callsite, i) ==
    IF i > Len(calls) THEN << >>
    ELSE (IF i = 1 THEN << >> ELSE <<";">>)
         \o CallSite_fmt(id_to_callsite[calls[i]])
         \o JoinFrom(calls, id_to_callsite, i + 1)

\* Callstack::as_string.  id_to_callsite.get(id).unwrap() panics on an
\* identifier the map does not hold: ok = FALSE stands for that panic.
Callstack_as_string(calls, id_to_callsite) ==
    IF calls = << >> THEN [ok |-> TRUE, string |-> NoPythonStack]
    ELSE IF \E i \in 1..Len(calls) : calls[i] \notin DOMAIN id_to_callsite
         THEN [ok |-> FALSE, string |-> << >>]
         ELSE [ok |-> TRUE, string |-> JoinFrom(calls, id_to_callsite, 1)]

(***************************************************************************)
(* CallSites, the registry (memorytracking.rs:73-106)                      *)
(***************************************************************************)
EmptyMap == [x \in {} |-> 0]

CallSites_new == [max_id |-> 0, callsite_to_id |-> EmptyMap]

\* CallSites::get_or_insert_id looking the call site up by its function name
\* alone: a call site of another module with that function name gets the
\* identifier already handed out.
Mutant_get_or_insert_by_function_name(call_sites, call_site) ==
    LET same == {c \in DOMAIN call_sites.callsite_to_id :
                    c.function_name = call_site.function_name}
    IN  IF same # {}
        THEN [call_sites |-> call_sites,
              id |-> call_sites.callsite_to_id[CHOOSE c \in same : TRUE]]
        ELSE [call_sites |->
                  [max_id |-> call_sites.max_id + 1,
                   callsite_to_id |->
                       [c \in DOMAIN call_sites.callsite_to_id \cup {call_site} |->
                           IF c = call_site THEN call_sites.max_id
                           ELSE call_sites.callsite_to_id[c]]],
              id |-> call_sites.max_id]

\* CallSites::get_or_insert_id: the registry after the call and the
\* identifier returned.
CallSites_get_or_insert_id(call_sites, call_site) ==
    IF call_site \in DOMAIN call_sites.callsite_to_id
    THEN [call_sites |-> call_sites, id |-> call_sites.callsite_to_id[call_site]]
    ELSE [call_sites |->
              [max_id |-> call_sites.max_id + 1,
               callsite_to_id |->
                   [c \in DOMAIN call_sites.callsite_to_id \cup {call_site} |->
                       IF c = call_site THEN call_sites.max_id
                       ELSE call_sites.callsite_to_id[c]]],
          id |-> call_sites.max_id]

\* CallSites::get_reverse_map.
CallSites_get_reverse_map(call_sites) ==
    [id \in {call_sites.callsite_to_id[c] : c \in DOMAIN call_sites.callsite_to_id} |->
        CHOOSE c \in DOMAIN call_sites.callsite_to_id : call_sites.callsite_to_id[c] = id]

(***************************************************************************)
(* AllocationTracker (memorytracking.rs:115-171)                           *)
(***************************************************************************)
Allocation(callstack, size) == [callstack |-> callstack, size |-> size]

AllocationTracker_new ==
    [current_allocations |-> EmptyMap,
     peak_allocations |-> EmptyMap,
     current_allocated_bytes |-> 0,
     peak_allocated_bytes |-> 0,
     call_sites |-> CallSites_new]

\* HashMap::insert: the entry at `key` is created or overwritten.
MapInsert(map, key, value) ==
    [k \in DOMAIN map \cup {key} |-> IF k = key THEN value ELSE map[k]]

\* HashMap::remove: the map without `key`.
MapRemove(map, key) == [k \in DOMAIN map \ {key} |-> map[k]]

\* add_allocation with the new size, not the new total, compared to the peak.
Mutant_add_compares_size(self, address, size, callstack) ==
    LET inserted == MapInsert(self.current_allocations, address,
                              Allocation(callstack, size))
        bytes == self.current_allocated_bytes + size
    IN  IF size > self.peak_allocated_bytes
        THEN [self EXCEPT !.current_allocations = inserted,
                          !.current_allocated_bytes = bytes,
                          !.peak_allocated_bytes = bytes,
                          !.peak_allocations = inserted]
        ELSE [self EXCEPT !.current_allocations = inserted,
                          !.current_allocated_bytes = bytes]

\* add_allocation with the snapshot taken before the insert.
Mutant_add_snapshot_before_insert(self, address, size, callstack) ==
    LET inserted == MapInsert(self.current_allocations, address,
                              Allocation(callstack, size))
        bytes == self.current_allocated_bytes + size
    IN  IF bytes > self.peak_allocated_bytes
        THEN [self EXCEPT !.current_allocations = inserted,
                          !.current_allocated_bytes = bytes,
                          !.peak_allocated_bytes = bytes,
                          !.peak_allocations = self.current_allocations]
        ELSE [self EXCEPT !.current_allocations = inserted,
                          !.current_allocated_bytes = bytes]

\* add_allocation with >= for > in the comparison with the peak.
Mutant_add_peak_on_equal(self, address, size, callstack) ==
    LET inserted == MapInsert(self.current_allocations, address,
                              Allocation(callstack, size))
        bytes == self.current_allocated_bytes + size
    IN  IF bytes >= self.peak_allocated_bytes
        THEN [self EXCEPT !.current_allocations = inserted,
                          !.current_allocated_bytes = bytes,
                          !.peak_allocated_bytes = bytes,
                          !.peak_allocations = inserted]
        ELSE [self EXCEPT !.current_allocations = inserted,
                          !.current_allocated_bytes = bytes]

\* add_allocation with != for > in the comparison with the peak.
Mutant_add_peak_on_differ(self, address, size, callstack) ==
    LET inserted == MapInsert(self.current_allocations, address,
                              Allocation(callstack, size))
        bytes == self.current_allocated_bytes + size
    IN  IF bytes # self.peak_allocated_bytes
        THEN [self EXCEPT !.current_allocations = inserted,
                          !.current_allocated_bytes = bytes,
                          !.peak_allocated_bytes = bytes,
                          !.peak_allocations = inserted]
        ELSE [self EXCEPT !.current_allocations = inserted,
                          !.current_allocated_bytes = bytes]

\* add_allocation that stores the size as the total instead of adding it.
Mutant_add_sets_total(self, address, size, callstack) ==
    LET inserted == MapInsert(self.current_allocations, address,
                              Allocation(callstack, size))
        bytes == size
    IN  IF bytes > self.peak_allocated_bytes
        THEN [self EXCEPT !.current_allocations = inserted,
                          !.current_allocated_bytes = bytes,
                          !.peak_allocated_bytes = bytes,
                          !.peak_allocations = inserted]
        ELSE [self EXCEPT !.current_allocations = inserted,
                          !.current_allocated_bytes = bytes]

\* AllocationTracker::add_allocation: the whole method.
AllocationTracker_add_allocation(self, address, size, callstack) ==
    LET inserted == MapInsert(self.current_allocations, address,
                              Allocation(callstack, size))
        bytes == self.current_allocated_bytes + size
    IN  IF bytes > self.peak_allocated_bytes
        THEN [self EXCEPT !.current_allocations = inserted,
                          !.current_allocated_bytes = bytes,
                          !.peak_allocated_bytes = bytes,
                          !.peak_allocations = inserted]
        ELSE [self EXCEPT !.current_allocations = inserted,
                          !.current_allocated_bytes = bytes]

\* free_allocation taking the clamp-to-zero branch for an unknown address.
Mutant_free_unknown_clamps(self, address) ==
    IF address \in DOMAIN self.current_allocations
    THEN LET removed == self.current_allocations[address]
         IN  [self EXCEPT
                 !.current_allocations = MapRemove(self.current_allocations, address),
                 !.current_allocated_bytes =
                     IF removed.size > self.current_allocated_bytes
                     THEN 0
                     ELSE self.current_allocated_bytes - removed.size]
    ELSE [self EXCEPT !.current_allocated_bytes = 0]

\* free_allocation without the comparison of line 150: the subtraction is
\* made whatever the total is.
Mutant_free_subtracts_unchecked(self, address) ==
    IF address \in DOMAIN self.current_allocations
    THEN LET removed == self.current_allocations[address]
         IN  [self EXCEPT
                 !.current_allocations = MapRemove(self.current_allocations, address),
                 !.current_allocated_bytes =
                     self.current_allocated_bytes - removed.size]
    ELSE self

\* AllocationTracker::free_allocation: the whole method.
AllocationTracker_free_allocation(self, address) ==
    IF address \in DOMAIN self.current_allocations
    THEN LET removed == self.current_allocations[address]
         IN  [self EXCEPT
                 !.current_allocations = MapRemove(self.current_allocations, address),
                 !.current_allocated_bytes =
                     IF removed.size > self.current_allocated_bytes
                     THEN 0
                     ELSE self.current_allocated_bytes - removed.size]
    ELSE self

\* The loop of combine_callstacks over the records still to visit: each
\* record's call stack is rendered and its size added to that string's entry
\* (entry(..).or_insert(0), then +=).  A panic of as_string ends the call.
RECURSIVE combine_loop(_, _, _, _)
combine_loop(peak_allocations, id_to_callsite, todo, by_call) ==
    IF todo = {} THEN [ok |-> TRUE, by_call |-> by_call]
    ELSE LET address == CHOOSE a \in todo : TRUE
             callstack == Callstack_as_string(peak_allocations[address].callstack,
                                              id_to_callsite)
             size == peak_allocations[address].size
         IN  IF ~callstack.ok THEN [ok |-> FALSE, by_call |-> EmptyMap]
             ELSE combine_loop(peak_allocations, id_to_callsite, todo \ {address},
                      IF callstack.string \in DOMAIN by_call
                      THEN [by_call EXCEPT ![callstack.string] = @ + size]
                      ELSE MapInsert(by_call, callstack.string, 0 + size))

\* combine_callstacks reading the live allocations instead of the snapshot.
Mutant_combine_reads_current(self) ==
    combine_loop(self.current_allocations,
                 CallSites_get_reverse_map(self.call_sites),
                 DOMAIN self.current_allocations,
                 EmptyMap)

\* AllocationTracker::combine_callstacks.
AllocationTracker_combine_callstacks(self) ==
    combine_loop(self.peak_allocations,
                 CallSites_get_reverse_map(self.call_sites),
                 DOMAIN self.peak_allocations,
                 EmptyMap)

(***************************************************************************)
(* Range (rangemap.rs:5-37)                                                *)
(***************************************************************************)
\* Range::new, called with length > 0 only (assert!(length > 0)).
Range_new(start, length) == [start |-> start, end |-> start + length]

Max(a, b) == IF a >= b THEN a ELSE b
Min(a, b) == IF a <= b THEN a ELSE b

\* Range::intersection: an Option<Range>; `range` is read only when some.
Range_intersection(self, other) ==
    LET max_start == Max(self.start, other.start)
        min_end == Min(self.end, other.end)
    IN  IF min_end <= max_start
        THEN [some |-> FALSE, range |-> [start |-> 0, end |-> 0]]
        ELSE [some |-> TRUE, range |-> [start |-> max_start, end |-> min_end]]

Range_size(self) == self.end - self.start

(***************************************************************************)
(* RangeMap (rangemap.rs:39-130)                                           *)
(***************************************************************************)
RangeMap_new == << >>

\* RangeMap::add without its length check: a request of length 0 stores an
\* empty interval.
Mutant_add_no_length_check(ranges, start, length, value) ==
    Append(ranges, <<[start |-> start, end |-> start + length], value>>)

\* RangeMap::add.
RangeMap_add(ranges, start, length, value) ==
    IF length <= 0 THEN ranges
    ELSE Append(ranges, <<Range_new(start, length), value>>)

\* RangeMap::as_hashmap: start |-> <<size, value>>, collected in the order
\* of the stored intervals, so of two intervals with one start the later
\* one is kept.
RangeMap_as_hashmap(ranges) ==
    [start \in {ranges[k][1].start : k \in 1..Len(ranges)} |->
        LET k == CHOOSE k \in 1..Len(ranges) :
                     /\ ranges[k][1].start = start
                     /\ \A j \in 1..Len(ranges) :
                            ranges[j][1].start = start => j <= k
        IN  <<ranges[k][1].end - ranges[k][1].start, ranges[k][2]>>]

\* RangeMap::size.
RECURSIVE RangeMap_size(_)
RangeMap_size(ranges) ==
    IF ranges = << >> THEN 0
    ELSE Range_size(Head(ranges)[1]) + RangeMap_size(Tail(ranges))

\* remove_arm with the total-overlap arm missing: a fully covered interval
\* falls into the remove-from-start arm and leaves an empty fragment.
Mutant_remove_arm_no_total_overlap(range, value, remove) ==
    LET o == Range_intersection(range, remove)
        i == o.range
    IN  IF ~o.some THEN << <<range, value>> >>
        ELSE IF i.start = range.start /\ i.end <= range.end
        THEN << <<[start |-> i.end, end |-> range.end], value>> >>
        ELSE IF i.start > range.start /\ i.end = range.end
        THEN << <<[start |-> range.start, end |-> i.start], value>> >>
        ELSE << <<[start |-> range.start, end |-> i.start], value>>,
                <<[start |-> i.end, end |-> range.end], value>> >>

\* remove_arm with the second fragment of a middle overlap forgotten.
Mutant_remove_arm_middle_drops_tail(range, value, remove) ==
    LET o == Range_intersection(range, remove)
        i == o.range
    IN  IF ~o.some THEN << <<range, value>> >>
        ELSE IF i.start = range.start /\ i.end = range.end
        THEN << >>
        ELSE IF i.start = range.start /\ i.end < range.end
        THEN << <<[start |-> i.end, end |-> range.end], value>> >>
        ELSE IF i.start > range.start /\ i.end = range.end
        THEN << <<[start |-> range.start, end |-> i.start], value>> >>
        ELSE << <<[start |-> range.start, end |-> i.start], value>> >>

\* remove_arm whose chunk-from-end arm keeps the interval up to the end of
\* the overlap instead of up to its start: nothing is cut off.
Mutant_remove_arm_end_keeps_overlap(range, value, remove) ==
    LET o == Range_intersection(range, remove)
        i == o.range
    IN  IF ~o.some THEN << <<range, value>> >>
        ELSE IF i.start = range.start /\ i.end = range.end
        THEN << >>
        ELSE IF i.start = range.start /\ i.end < range.end
        THEN << <<[start |-> i.end, end |-> range.end], value>> >>
        ELSE IF i.start > range.start /\ i.end = range.end
        THEN << <<[start |-> range.start, end |-> i.end], value>> >>
        ELSE << <<[start |-> range.start, end |-> i.start], value>>,
                <<[start |-> i.end, end |-> range.end], value>> >>

\* remove_arm whose middle arm keeps, as second fragment, the interval from
\* its own start instead of from the end of the overlap.
Mutant_remove_arm_middle_tail_from_start(range, value, remove) ==
    LET o == Range_intersection(range, remove)
        i == o.range
    IN  IF ~o.some THEN << <<range, value>> >>
        ELSE IF i.start = range.start /\ i.end = range.end
        THEN << >>
        ELSE IF i.start = range.start /\ i.end < range.end
        THEN << <<[start |-> i.end, end |-> range.end], value>> >>
        ELSE IF i.start > range.start /\ i.end = range.end
        THEN << <<[start |-> range.start, end |-> i.start], value>> >>
        ELSE << <<[start |-> range.start, end |-> i.start], value>>,
                <<[start |-> range.start, end |-> range.end], value>> >>

\* The match of RangeMap::remove on one stored interval (rangemap.rs:69-113):
\* what that interval pushes on new_ranges, its arms tried in the source's
\* order (total overlap, chunk from start, chunk from end, middle, none).
remove_arm(range, value, remove) ==
    LET o == Range_intersection(range, remove)
        i == o.range
    IN  IF ~o.some THEN << <<range, value>> >>
        ELSE IF i.start = range.start /\ i.end = range.end
        THEN << >>
        ELSE IF i.start = range.start /\ i.end < range.end
        THEN << <<[start |-> i.end, end |-> range.end], value>> >>
        ELSE IF i.start > range.start /\ i.end = range.end
        THEN << <<[start |-> range.start, end |-> i.start], value>> >>
        ELSE << <<[start |-> range.start, end |-> i.start], value>>,
                <<[start |-> i.end, end |-> range.end], value>> >>

\* The for loop of RangeMap::remove from index k on: new_ranges.
RECURSIVE remove_loop(_, _, _)
remove_loop(ranges, remove, k) ==
    IF k > Len(ranges) THEN << >>
    ELSE remove_arm(ranges[k][1], ranges[k][2], remove)
         \o remove_loop(ranges, remove, k + 1)

\* RangeMap::remove returning the length it was asked to remove instead of
\* the difference of the sizes.
Mutant_remove_returns_length(ranges, start, length) ==
    IF length <= 0 THEN [ranges |-> ranges, removed |-> 0]
    ELSE [ranges |-> remove_loop(ranges, Range_new(start, length), 1),
          removed |-> length]

\* RangeMap::remove: the intervals after the call and the count returned.
RangeMap_remove(ranges, start, length) ==
    IF length <= 0 THEN [ranges |-> ranges, removed |-> 0]
    ELSE LET new_ranges == remove_loop(ranges, Range_new(start, length), 1)
         IN  [ranges |-> new_ranges,
              removed |-> RangeMap_size(ranges) - RangeMap_size(new_ranges)]

(***************************************************************************)
(* StupidRangeMap, the per-address reference of the tests                  *)
(* (rangemap.rs:138-198)                                                   *)
(***************************************************************************)
StupidRangeMap_new == EmptyMap

\* StupidRangeMap::add, called with length > 0 only (assert!(length > 0)).
StupidRangeMap_add(items, start, length, value) ==
    [i \in DOMAIN items \cup (start..(start + length - 1)) |->
        IF i \in start..(start + length - 1) THEN value ELSE items[i]]

\* StupidRangeMap::remove, called with length > 0 only: the items after the
\* call and the count returned.
StupidRangeMap_remove(items, start, length) ==
    [items |-> [i \in DOMAIN items \ (start..(start + length - 1)) |-> items[i]],
     removed |-> Cardinality(DOMAIN items \cap (start..(start + length - 1)))]

\* StupidRangeMap::size.
StupidRangeMap_size(items) == Cardinality(DOMAIN items)

(***************************************************************************)
(* The public API (memorytracking.rs:246-279), one action per function.    *)
(* Each takes the mutex for the whole call, so each is one step.           *)
(***************************************************************************)
NoResult == [ok |-> TRUE, by_call |-> EmptyMap]

\* What `last` records of a call: the function called, whether its address
\* was a key of current_allocations when it was called, whether it set a new
\* peak, and what it returned.
Call(op, present, new_peak, result) ==
    [op |-> op, present |-> present, new_peak |-> new_peak, result |-> result]

\* What `range_last` records of a call on the range maps: the method called,
\* the length it was called with, and what remove returned on the RangeMap
\* and on the StupidRangeMap.
RangeCall(op, length, removed1, removed2) ==
    [op |-> op, length |-> length, removed1 |-> removed1, removed2 |-> removed2]

\* What `id_last` records of a call on the registry: the method called, the
\* call site passed, the identifier returned, and whether the call site was
\* registered before the call.
IdCall(op, call_site, id, known) ==
    [op |-> op, call_site |-> call_site, id |-> id, known |-> known]

\* Mutex::new: nobody holds it and it is not poisoned.
Mutex_new == [holder |-> "none", poisoned |-> FALSE]

\* Where a thread is: the public function it is in (op), the line of it
\* that runs next (at), the function's arguments and locals, and for
\* dump_peak_to_flamegraph the files it has tried to write (attempts) and
\* the ones that failed (failed).
Frame(op, at, address, size, call_site, callstack, id) ==
    [op |-> op, at |-> at, address |-> address, size |-> size,
     call_site |-> call_site, callstack |-> callstack, id |-> id,
     attempts |-> << >>, failed |-> {}]

\* A thread that is in none of the public functions.
Idle == Frame("idle", "idle", 0, 0, CallSite_new(<< >>, << >>), Callstack_new, 0)

Init ==
    /\ ALLOCATIONS = AllocationTracker_new
    /\ THREAD_CALLSTACK = [t \in LockThreads |-> Callstack_new]
    /\ last = Call("new", FALSE, FALSE, NoResult)
    /\ real_rangemap = RangeMap_new
    /\ stupid_rangemap = StupidRangeMap_new
    /\ range_last = RangeCall("new", 0, 0, 0)
    /\ adds_disjoint = TRUE
    /\ callsites = CallSites_new
    /\ handed_out = {}
    /\ id_last = IdCall("new", CallSite_new(<< >>, << >>), 0, FALSE)
    /\ mutex = Mutex_new
    /\ pc = [t \in LockThreads |-> Idle]
    /\ serial = AllocationTracker_new

start_call(thread, call_site) ==
    /\ LET got == CallSites_get_or_insert_id(ALLOCATIONS.call_sites, call_site)
       IN  /\ ALLOCATIONS' = [ALLOCATIONS EXCEPT !.call_sites = got.call_sites]
           /\ THREAD_CALLSTACK' =
                  [THREAD_CALLSTACK EXCEPT
                      ![thread] = Callstack_start_call(@, got.id)]
    /\ last' = Call("start_call", FALSE, FALSE, NoResult)
    /\ UNCHANGED non_tracker_vars

finish_call(thread) ==
    /\ THREAD_CALLSTACK' =
           [THREAD_CALLSTACK EXCEPT ![thread] = Callstack_finish_call(@)]
    /\ last' = Call("finish_call", FALSE, FALSE, NoResult)
    /\ UNCHANGED <<ALLOCATIONS, non_tracker_vars>>

add_allocation(thread, address, size) ==
    /\ LET callstack == THREAD_CALLSTACK[thread]
       IN  ALLOCATIONS' =
               AllocationTracker_add_allocation(ALLOCATIONS, address, size, callstack)
    /\ last' = Call("add_allocation",
                    address \in DOMAIN ALLOCATIONS.current_allocations,
                    ALLOCATIONS.current_allocated_bytes + size
                        > ALLOCATIONS.peak_allocated_bytes,
                    NoResult)
    /\ UNCHANGED <<THREAD_CALLSTACK, non_tracker_vars>>

free_allocation(thread, address) ==
    /\ ALLOCATIONS' = AllocationTracker_free_allocation(ALLOCATIONS, address)
    /\ last' = Call("free_allocation",
                    address \in DOMAIN ALLOCATIONS.current_allocations,
                    FALSE, NoResult)
    /\ UNCHANGED <<THREAD_CALLSTACK, non_tracker_vars>>

reset(thread) ==
    /\ ALLOCATIONS' = AllocationTracker_new
    /\ last' = Call("reset", FALSE, FALSE, NoResult)
    /\ UNCHANGED <<THREAD_CALLSTACK, non_tracker_vars>>

\* A call of combine_callstacks on the tracker (as dump_peak_to_flamegraph
\* makes at memorytracking.rs:184); its return value is kept in last.result.
combine_callstacks(thread) ==
    /\ last' = Call("combine_callstacks", FALSE, FALSE,
                    AllocationTracker_combine_callstacks(ALLOCATIONS))
    /\ UNCHANGED <<ALLOCATIONS, THREAD_CALLSTACK, non_tracker_vars>>

\* The calls the monitored process makes, within the bounds: call stacks no
\* deeper than MaxDepth, sizes in Sizes, a running total of at most MaxBytes.
Next ==
    \/ \E thread \in Threads, call_site \in CallSiteValues :
           /\ Len(THREAD_CALLSTACK[thread]) < MaxDepth
           /\ start_call(thread, call_site)
    \/ \E thread \in Threads : finish_call(thread)
    \/ \E thread \in Threads, address \in Addresses, size \in Sizes :
           /\ ALLOCATIONS.current_allocated_bytes + size <= MaxBytes
           /\ add_allocation(thread, address, size)
    \/ \E thread \in Threads, address \in FreedAddresses :
           free_allocation(thread, address)
    \/ \E thread \in Threads : reset(thread)
    \/ \E thread \in Threads : combine_callstacks(thread)

Spec == Init /\ [][Next]_vars

(***************************************************************************)
(* The range map next to its per-address reference, driven as by the test  *)
(* adding_removing_ranges (rangemap.rs:216-237): every call is made on     *)
(* both maps.  The reference asserts length > 0, so a call with length 0   *)
(* is made on the RangeMap alone.                                          *)
(***************************************************************************)
Values == {"X", "Y"}
Starts == 0..MaxStart
Lengths == 0..MaxLength

\* The addresses of the half-open interval [range.start, range.end).
AddressesOf(range) == range.start..(range.end - 1)

add(start, length, value) ==
    /\ real_rangemap' = RangeMap_add(real_rangemap, start, length, value)
    /\ stupid_rangemap' =
           IF length > 0
           THEN StupidRangeMap_add(stupid_rangemap, start, length, value)
           ELSE stupid_rangemap
    /\ range_last' = RangeCall("add", length, 0, 0)
    /\ adds_disjoint' =
           (/\ adds_disjoint
            /\ \A k \in 1..Len(real_rangemap) :
                   AddressesOf(real_rangemap[k][1])
                       \cap (start..(start + length - 1)) = {})
    /\ UNCHANGED non_rangemap_vars

remove(start, length) ==
    /\ LET real == RangeMap_remove(real_rangemap, start, length)
           stupid == IF length > 0
                     THEN StupidRangeMap_remove(stupid_rangemap, start, length)
                     ELSE [items |-> stupid_rangemap, removed |-> 0]
       IN  /\ real_rangemap' = real.ranges
           /\ stupid_rangemap' = stupid.items
           /\ range_last' = RangeCall("remove", length, real.removed, stupid.removed)
    /\ UNCHANGED <<adds_disjoint, non_rangemap_vars>>

NextRangeMap ==
    \/ \E start \in Starts, length \in Lengths, value \in Values :
           /\ Len(real_rangemap) < MaxRanges
           /\ add(start, length, value)
    \/ \E start \in Starts, length \in Lengths : remove(start, length)

SpecRangeMap == Init /\ [][NextRangeMap]_vars

(***************************************************************************)
(* AllocationTracker::free_allocation as a function of the tracker it is   *)
(* called on.  The tracker holds any records with any running total: a     *)
(* total below the size of a record is what `+=` at memorytracking.rs:139  *)
(* leaves when it wraps around in a build without overflow checks, which   *)
(* the totals of Spec are too small to do.  The peak fields are a snapshot *)
(* of the live ones, as after an add_allocation that set a peak.           *)
(***************************************************************************)
RecordMaps ==
    UNION { [D -> {Allocation(Callstack_new, size) : size \in Sizes}] :
            D \in SUBSET Addresses }

Totals == 0..(MaxAddress * MaxSize)

InitFree ==
    /\ \E records \in RecordMaps, total \in Totals :
           ALLOCATIONS = [current_allocations |-> records,
                          peak_allocations |-> records,
                          current_allocated_bytes |-> total,
                          peak_allocated_bytes |-> total,
                          call_sites |-> CallSites_new]
    /\ THREAD_CALLSTACK = [t \in LockThreads |-> Callstack_new]
    /\ last = Call("new", FALSE, FALSE, NoResult)
    /\ real_rangemap = RangeMap_new
    /\ stupid_rangemap = StupidRangeMap_new
    /\ range_last = RangeCall("new", 0, 0, 0)
    /\ adds_disjoint = TRUE
    /\ callsites = CallSites_new
    /\ handed_out = {}
    /\ id_last = IdCall("new", CallSite_new(<< >>, << >>), 0, FALSE)
    /\ mutex = Mutex_new
    /\ pc = [t \in LockThreads |-> Idle]
    /\ serial = AllocationTracker_new

NextFree ==
    \E thread \in Threads, address \in FreedAddresses :
        free_allocation(thread, address)

SpecFree == InitFree /\ [][NextFree]_vars

(***************************************************************************)
(* A CallSites registry driven on its own, as by the test                  *)
(* callsites_notices_duplicate_callsites (memorytracking.rs:391-407).      *)
(***************************************************************************)
\* The call sites of the test, ("a", "af"), ("b", "af"), ("a", "bf"), and
\* the fourth combination of their names: pairs that differ in the module
\* name only, in the function name only, and in both.
TestCallSites ==
    { CallSite_new(module_name, function_name) :
          module_name \in {<<"a">>, <<"b">>},
          function_name \in {<<"a", "f">>, <<"b", "f">>} }

get_or_insert_id(call_site) ==
    /\ LET got == CallSites_get_or_insert_id(callsites, call_site)
       IN  /\ callsites' = got.call_sites
           /\ handed_out' = handed_out \cup {<<call_site, got.id>>}
           /\ id_last' = IdCall("get_or_insert_id", call_site, got.id,
                                call_site \in DOMAIN callsites.callsite_to_id)
    /\ UNCHANGED non_registry_vars

NextCallSites ==
    \E call_site \in TestCallSites : get_or_insert_id(call_site)

SpecCallSites == Init /\ [][NextCallSites]_vars

(***************************************************************************)
(* The public API called by two threads (memorytracking.rs:241-285), one   *)
(* action per line of each function: taking the mutex, each statement of   *)
(* the method run under it, and the drop of the guard at the function's    *)
(* end.  A panic under the guard unwinds through the guard's drop, which   *)
(* releases the mutex and marks it poisoned; lock() on a poisoned mutex    *)
(* returns Err, which unwrap() turns into a panic of the caller.           *)
(***************************************************************************)
LockAddresses == 1..LockMaxAddress
LockSizes == 1..LockMaxSize
LockFreedAddresses == LockAddresses \cup {LockMaxAddress + 1}
LockCallSites == {CallSite_new(<<"a">>, <<"b">>)}

\* What the directory check of the export finds at the output path
\* (memorytracking.rs:177-183): nothing and create_dir succeeds, nothing and
\* create_dir fails, a directory, something that is not a directory.
DirectoryOutcomes == {"created", "create_failed", "is_dir", "not_dir"}

\* The files the export writes, in the order of its statements.
ExportFiles == <<"peak-memory.prof", "peak-memory.svg", "peak-memory-reversed.svg">>

\* THREAD_CALLSTACK as one static shared by all threads instead of a
\* thread_local!: every thread uses the same call stack.
Mutant_callstack_shared(thread) == "t1"

\* THREAD_CALLSTACK.with: the slot of the thread that runs it.
thread_local(thread) == thread

\* A lock that excludes nobody.
Mutant_mutex_never_blocks(m) == TRUE

\* Mutex::lock returns at once only if no thread holds the mutex.
Mutex_available(m) == m.holder = "none"

\* A guard that is leaked instead of dropped: the mutex stays held.
Mutant_unlock_leaks_guard(m, thread) == m

\* The drop of the MutexGuard at the end of a function.
Mutex_unlock(m, thread) == [m EXCEPT !.holder = "none"]

\* The drop of the MutexGuard while a panic unwinds.
Mutex_unlock_panicking(m, thread) == [holder |-> "none", poisoned |-> TRUE]

\* A reset that clears the maps and the totals field by field and leaves
\* the registry as it is.
Mutant_reset_clears_field_by_field(self) ==
    [self EXCEPT !.current_allocations = EmptyMap,
                 !.peak_allocations = EmptyMap,
                 !.current_allocated_bytes = 0,
                 !.peak_allocated_bytes = 0]

\* `*guard = AllocationTracker::new()` (memorytracking.rs:278): the tracker
\* after the assignment, given the tracker before it.
reset_assign(self) == AllocationTracker_new

\* A public function run whole on the tracker `self`: what the call of
\* frame `f` does to the shared state when nothing else runs meanwhile.
RunWhole(self, f) ==
    CASE f.op = "start_call" ->
             [self EXCEPT !.call_sites =
                 CallSites_get_or_insert_id(self.call_sites, f.call_site).call_sites]
      [] f.op = "add_allocation" ->
             AllocationTracker_add_allocation(self, f.address, f.size, f.callstack)
      [] f.op = "free_allocation" ->
             AllocationTracker_free_allocation(self, f.address)
      [] f.op = "reset" -> AllocationTracker_new
      [] OTHER -> self

\* The statement that follows the lock() line in each public function.
AfterLock(op) ==
    CASE op = "start_call" -> "get_or_insert_id"
      [] op = "add_allocation" -> "insert"
      [] op = "free_allocation" -> "remove"
      [] op = "reset" -> "assign"
      [] op = "dump_peak_to_flamegraph" -> "directory"

InCall(thread) == pc[thread].at \notin {"idle", "panicked_lock",
                                         "panicked_directory", "panicked_combine"}

\* A thread calls a public function: it is at the function's first line.
enter(thread, frame) ==
    /\ ~InCall(thread)
    /\ pc' = [pc EXCEPT ![thread] = frame]
    /\ UNCHANGED <<ALLOCATIONS, THREAD_CALLSTACK, mutex, serial, non_lock_vars>>

\* finish_call (memorytracking.rs:257-261): no lock is taken.
finish_call_pop(thread) ==
    /\ pc[thread].op = "finish_call" /\ pc[thread].at = "pop"
    /\ THREAD_CALLSTACK' =
           [THREAD_CALLSTACK EXCEPT
               ![thread_local(thread)] = Callstack_finish_call(@)]
    /\ pc' = [pc EXCEPT ![thread] = Idle]
    /\ UNCHANGED <<ALLOCATIONS, mutex, serial, non_lock_vars>>

\* ALLOCATIONS.lock().unwrap() on a mutex that is not poisoned
\* (memorytracking.rs:248, 266, 272, 278, 283).
lock_unwrap(thread) ==
    /\ pc[thread].at = "lock"
    /\ Mutex_available(mutex)
    /\ ~mutex.poisoned
    /\ mutex' = [mutex EXCEPT !.holder = thread]
    /\ pc' = [pc EXCEPT ![thread].at = AfterLock(pc[thread].op)]
    /\ serial' = RunWhole(serial, pc[thread])
    /\ UNCHANGED <<ALLOCATIONS, THREAD_CALLSTACK, non_lock_vars>>

\* ALLOCATIONS.lock().unwrap() on a poisoned mutex: lock() returns Err and
\* unwrap() panics; the guard inside the Err is dropped.
lock_unwrap_poisoned(thread) ==
    /\ pc[thread].at = "lock"
    /\ Mutex_available(mutex)
    /\ mutex.poisoned
    /\ pc' = [pc EXCEPT ![thread].at = "panicked_lock"]
    /\ UNCHANGED <<ALLOCATIONS, THREAD_CALLSTACK, mutex, serial, non_lock_vars>>

\* The end of a public function that holds the guard: the guard is dropped.
unlock(thread) ==
    /\ pc[thread].at = "unlock"
    /\ mutex' = Mutex_unlock(mutex, thread)
    /\ pc' = [pc EXCEPT ![thread] = Idle]
    /\ UNCHANGED <<ALLOCATIONS, THREAD_CALLSTACK, serial, non_lock_vars>>

\* start_call, memorytracking.rs:249.
start_call_get_or_insert_id(thread) ==
    /\ pc[thread].op = "start_call" /\ pc[thread].at = "get_or_insert_id"
    /\ LET got == CallSites_get_or_insert_id(ALLOCATIONS.call_sites,
                                             pc[thread].call_site)
       IN  /\ ALLOCATIONS' = [ALLOCATIONS EXCEPT !.call_sites = got.call_sites]
           /\ pc' = [pc EXCEPT ![thread].id = got.id, ![thread].at = "push"]
    /\ UNCHANGED <<THREAD_CALLSTACK, mutex, serial, non_lock_vars>>

\* start_call, memorytracking.rs:250-252.
start_call_push(thread) ==
    /\ pc[thread].op = "start_call" /\ pc[thread].at = "push"
    /\ THREAD_CALLSTACK' =
           [THREAD_CALLSTACK EXCEPT
               ![thread_local(thread)] = Callstack_start_call(@, pc[thread].id)]
    /\ pc' = [pc EXCEPT ![thread].at = "unlock"]
    /\ UNCHANGED <<ALLOCATIONS, mutex, serial, non_lock_vars>>

\* add_allocation, memorytracking.rs:265: the clone of the thread's call
\* stack, made before the mutex is taken.
add_allocation_clone(thread) ==
    /\ pc[thread].op = "add_allocation" /\ pc[thread].at = "clone"
    /\ pc' = [pc EXCEPT
                 ![thread].callstack = THREAD_CALLSTACK[thread_local(thread)],
                 ![thread].at = "lock"]
    /\ UNCHANGED <<ALLOCATIONS, THREAD_CALLSTACK, mutex, serial, non_lock_vars>>

\* AllocationTracker::add_allocation, memorytracking.rs:137-138.
add_allocation_insert(thread) ==
    /\ pc[thread].op = "add_allocation" /\ pc[thread].at = "insert"
    /\ ALLOCATIONS' =
           [ALLOCATIONS EXCEPT
               !.current_allocations =
                   MapInsert(@, pc[thread].address,
                             Allocation(pc[thread].callstack, pc[thread].size))]
    /\ pc' = [pc EXCEPT ![thread].at = "add_bytes"]
    /\ UNCHANGED <<THREAD_CALLSTACK, mutex, serial, non_lock_vars>>

\* AllocationTracker::add_allocation, memorytracking.rs:139.
add_allocation_add_bytes(thread) ==
    /\ pc[thread].op = "add_allocation" /\ pc[thread].at = "add_bytes"
    /\ ALLOCATIONS' =
           [ALLOCATIONS EXCEPT !.current_allocated_bytes = @ + pc[thread].size]
    /\ pc' = [pc EXCEPT ![thread].at = "peak"]
    /\ UNCHANGED <<THREAD_CALLSTACK, mutex, serial, non_lock_vars>>

\* AllocationTracker::add_allocation, memorytracking.rs:140-143.
add_allocation_peak(thread) ==
    /\ pc[thread].op = "add_allocation" /\ pc[thread].at = "peak"
    /\ ALLOCATIONS' =
           IF ALLOCATIONS.current_allocated_bytes > ALLOCATIONS.peak_allocated_bytes
           THEN [ALLOCATIONS EXCEPT
                    !.peak_allocated_bytes = ALLOCATIONS.current_allocated_bytes,
                    !.peak_allocations = ALLOCATIONS.current_allocations]
           ELSE ALLOCATIONS
    /\ pc' = [pc EXCEPT ![thread].at = "unlock"]
    /\ UNCHANGED <<THREAD_CALLSTACK, mutex, serial, non_lock_vars>>

\* AllocationTracker::free_allocation, memorytracking.rs:149: the removed
\* record's size is kept in the frame.
free_allocation_remove(thread) ==
    /\ pc[thread].op = "free_allocation" /\ pc[thread].at = "remove"
    /\ IF pc[thread].address \in DOMAIN ALLOCATIONS.current_allocations
       THEN /\ ALLOCATIONS' =
                   [ALLOCATIONS EXCEPT
                       !.current_allocations = MapRemove(@, pc[thread].address)]
            /\ pc' = [pc EXCEPT
                         ![thread].size =
                             ALLOCATIONS.current_allocations[pc[thread].address].size,
                         ![thread].at = "sub_bytes"]
       ELSE /\ pc' = [pc EXCEPT ![thread].at = "unlock"]
            /\ UNCHANGED ALLOCATIONS
    /\ UNCHANGED <<THREAD_CALLSTACK, mutex, serial, non_lock_vars>>

\* AllocationTracker::free_allocation, memorytracking.rs:150-155.
free_allocation_sub_bytes(thread) ==
    /\ pc[thread].op = "free_allocation" /\ pc[thread].at = "sub_bytes"
    /\ ALLOCATIONS' =
           [ALLOCATIONS EXCEPT
               !.current_allocated_bytes =
                   IF pc[thread].size > ALLOCATIONS.current_allocated_bytes
                   THEN 0
                   ELSE ALLOCATIONS.current_allocated_bytes - pc[thread].size]
    /\ pc' = [pc EXCEPT ![thread].at = "unlock"]
    /\ UNCHANGED <<THREAD_CALLSTACK, mutex, serial, non_lock_vars>>

\* reset, memorytracking.rs:278: the assignment through the guard.
reset_assign_tracker(thread) ==
    /\ pc[thread].op = "reset" /\ pc[thread].at = "assign"
    /\ ALLOCATIONS' = reset_assign(ALLOCATIONS)
    /\ pc' = [pc EXCEPT ![thread].at = "unlock"]
    /\ UNCHANGED <<THREAD_CALLSTACK, mutex, serial, non_lock_vars>>

\* AllocationTracker::dump_peak_to_flamegraph, memorytracking.rs:177-183:
\* the directory check, which passes or panics.
dump_directory(thread, outcome) ==
    /\ pc[thread].op = "dump_peak_to_flamegraph" /\ pc[thread].at = "directory"
    /\ IF outcome \in {"created", "is_dir"}
       THEN /\ pc' = [pc EXCEPT ![thread].at = "combine"]
            /\ UNCHANGED mutex
       ELSE /\ pc' = [pc EXCEPT ![thread].at = "panicked_directory"]
            /\ mutex' = Mutex_unlock_panicking(mutex, thread)
    /\ UNCHANGED <<ALLOCATIONS, THREAD_CALLSTACK, serial, non_lock_vars>>

\* AllocationTracker::dump_peak_to_flamegraph, memorytracking.rs:184:
\* combine_callstacks, which returns or panics in as_string.
dump_combine(thread) ==
    /\ pc[thread].op = "dump_peak_to_flamegraph" /\ pc[thread].at = "combine"
    /\ IF AllocationTracker_combine_callstacks(ALLOCATIONS).ok
       THEN /\ pc' = [pc EXCEPT ![thread].at = "write"]
            /\ UNCHANGED mutex
       ELSE /\ pc' = [pc EXCEPT ![thread].at = "panicked_combine"]
            /\ mutex' = Mutex_unlock_panicking(mutex, thread)
    /\ UNCHANGED <<ALLOCATIONS, THREAD_CALLSTACK, serial, non_lock_vars>>

\* AllocationTracker::dump_peak_to_flamegraph, memorytracking.rs:194-196,
\* 202-217, 224-238: the next of the three files is written; an error is
\* printed and the function goes on.
dump_write(thread, ok) ==
    /\ pc[thread].op = "dump_peak_to_flamegraph" /\ pc[thread].at = "write"
    /\ LET file == ExportFiles[Len(pc[thread].attempts) + 1]
           attempts == Append(pc[thread].attempts, file)
       IN  pc' = [pc EXCEPT
                     ![thread].attempts = attempts,
                     ![thread].failed = IF ok THEN @ ELSE @ \cup {file},
                     ![thread].at = IF Len(attempts) = Len(ExportFiles)
                                    THEN "unlock" ELSE "write"]
    /\ UNCHANGED <<ALLOCATIONS, THREAD_CALLSTACK, mutex, serial, non_lock_vars>>

\* The bytes of the add_allocation calls that are under way.
RECURSIVE PendingBytes(_)
PendingBytes(threads) ==
    IF threads = {} THEN 0
    ELSE LET t == CHOOSE t \in threads : TRUE
         IN  (IF pc[t].op = "add_allocation"
                    /\ pc[t].at \in {"clone", "lock", "insert", "add_bytes"}
              THEN pc[t].size ELSE 0)
             + PendingBytes(threads \ {t})

NoCallSite == CallSite_new(<< >>, << >>)

\* The calls of the threads and their steps, within the bounds.
NextLock ==
    \/ \E thread \in LockThreads, call_site \in LockCallSites :
           /\ Len(THREAD_CALLSTACK[thread]) < LockMaxDepth
           /\ enter(thread, Frame("start_call", "lock", 0, 0, call_site,
                                  Callstack_new, 0))
    \/ \E thread \in LockThreads :
           enter(thread, Frame("finish_call", "pop", 0, 0, NoCallSite,
                               Callstack_new, 0))
    \/ \E thread \in LockThreads, address \in LockAddresses, size \in LockSizes :
           /\ ALLOCATIONS.current_allocated_bytes + PendingBytes(LockThreads) + size
                  <= LockMaxBytes
           /\ enter(thread, Frame("add_allocation", "clone", address, size,
                                  NoCallSite, Callstack_new, 0))
    \/ \E thread \in LockThreads, address \in LockFreedAddresses :
           enter(thread, Frame("free_allocation", "lock", address, 0,
                               NoCallSite, Callstack_new, 0))
    \/ \E thread \in LockThreads :
           enter(thread, Frame("reset", "lock", 0, 0, NoCallSite, Callstack_new, 0))
    \/ \E thread \in LockThreads :
           enter(thread, Frame("dump_peak_to_flamegraph", "lock", 0, 0,
                               NoCallSite, Callstack_new, 0))
    \/ \E thread \in LockThreads : finish_call_pop(thread)
    \/ \E thread \in LockThreads : lock_unwrap(thread)
    \/ \E thread \in LockThreads : lock_unwrap_poisoned(thread)
    \/ \E thread \in LockThreads : unlock(thread)
    \/ \E thread \in LockThreads : start_call_get_or_insert_id(thread)
    \/ \E thread \in LockThreads : start_call_push(thread)
    \/ \E thread \in LockThreads : add_allocation_clone(thread)
    \/ \E thread \in LockThreads : add_allocation_insert(thread)
    \/ \E thread \in LockThreads : add_allocation_add_bytes(thread)
    \/ \E thread \in LockThreads : add_allocation_peak(thread)
    \/ \E thread \in LockThreads : free_allocation_remove(thread)
    \/ \E thread \in LockThreads : free_allocation_sub_bytes(thread)
    \/ \E thread \in LockThreads : reset_assign_tracker(thread)
    \/ \E thread \in LockThreads, outcome \in DirectoryOutcomes :
           dump_directory(thread, outcome)
    \/ \E thread \in LockThreads : dump_combine(thread)
    \/ \E thread \in LockThreads, ok \in BOOLEAN : dump_write(thread, ok)

SpecLock == Init /\ [][NextLock]_vars

\* The steps of a thread that is inside a public function and is not
\* waiting for the mutex.
Run(thread) ==
    \/ finish_call_pop(thread)
    \/ unlock(thread)
    \/ start_call_get_or_insert_id(thread)
    \/ start_call_push(thread)
    \/ add_allocation_clone(thread)
    \/ add_allocation_insert(thread)
    \/ add_allocation_add_bytes(thread)
    \/ add_allocation_peak(thread)
    \/ free_allocation_remove(thread)
    \/ free_allocation_sub_bytes(thread)
    \/ reset_assign_tracker(thread)
    \/ \E outcome \in DirectoryOutcomes : dump_directory(thread, outcome)
    \/ dump_combine(thread)
    \/ \E ok \in BOOLEAN : dump_write(thread, ok)

\* The return of ALLOCATIONS.lock().unwrap(), one way or the other.
Lock(thread) == lock_unwrap(thread) \/ lock_unwrap_poisoned(thread)

\* Fair scheduling: a thread inside a function keeps running, and a thread
\* waiting for the mutex gets it if the mutex is free again and again.
SpecLockFair ==
    /\ Init
    /\ [][NextLock]_vars
    /\ \A thread \in LockThreads :
           WF_vars(Run(thread)) /\ SF_vars(Lock(thread))

(***************************************************************************)
(* Properties of the allocation tracker.                                   *)
(***************************************************************************)
current_allocations == ALLOCATIONS.current_allocations
peak_allocations == ALLOCATIONS.peak_allocations
current_allocated_bytes == ALLOCATIONS.current_allocated_bytes
peak_allocated_bytes == ALLOCATIONS.peak_allocated_bytes

\* The sum of the sizes of the records of `allocations` at the addresses `keys`.
RECURSIVE SumSizes(_, _)
SumSizes(allocations, keys) ==
    IF keys = {} THEN 0
    ELSE LET k == CHOOSE a \in keys : TRUE
         IN  allocations[k].size + SumSizes(allocations, keys \ {k})

\* A step that is a call of add_allocation / of free_allocation.
IsAdd(thread, address, size) == add_allocation(thread, address, size)
IsFree(thread, address) == free_allocation(thread, address)

\* C1: conservation: in every reachable state current_allocated_bytes is the
\* sum of the sizes of the records in current_allocations.
C1_Conservation ==
    current_allocated_bytes = SumSizes(current_allocations, DOMAIN current_allocations)

\* C2: in every reachable state peak_allocated_bytes >= current_allocated_bytes.
C2_PeakAtLeastCurrent == peak_allocated_bytes >= current_allocated_bytes

\* C2's case: after a free of a known address the peak stays above a
\* non-zero current total.
C2_Witness ==
    /\ last.op = "free_allocation"
    /\ last.present
    /\ 0 < current_allocated_bytes
    /\ current_allocated_bytes < peak_allocated_bytes

\* C3: peak snapshot fidelity: right after an add_allocation whose resulting
\* total strictly exceeds the peak held before the call, peak_allocations
\* equals current_allocations, holds the record just inserted (the caller's
\* call stack and the size passed), and peak_allocated_bytes equals
\* current_allocated_bytes.
C3_PeakSnapshotFidelity ==
    [][\A thread \in Threads, address \in Addresses, size \in Sizes :
          (/\ IsAdd(thread, address, size)
           /\ current_allocated_bytes' > peak_allocated_bytes)
          => /\ peak_allocations' = current_allocations'
             /\ address \in DOMAIN peak_allocations'
             /\ peak_allocations'[address]
                    = Allocation(THREAD_CALLSTACK[thread], size)
             /\ \A a \in DOMAIN current_allocations \ {address} :
                    /\ a \in DOMAIN peak_allocations'
                    /\ peak_allocations'[a] = current_allocations[a]
             /\ peak_allocated_bytes' = current_allocated_bytes']_vars

\* C3's case: an add_allocation has just set a new peak with two records live.
C3_Witness ==
    /\ last.op = "add_allocation"
    /\ last.new_peak
    /\ Cardinality(DOMAIN peak_allocations) = 2
    /\ peak_allocations = current_allocations

\* C4: the peak snapshot is only updated on new peaks: every free_allocation
\* (known address or not) and every add_allocation whose resulting total does
\* not strictly exceed peak_allocated_bytes leaves peak_allocations and
\* peak_allocated_bytes as they were.
C4_PeakOnlyOnNewPeaks ==
    [][\A thread \in Threads :
          (\/ \E address \in FreedAddresses : IsFree(thread, address)
           \/ \E address \in Addresses, size \in Sizes :
                  /\ IsAdd(thread, address, size)
                  /\ ~(current_allocated_bytes' > peak_allocated_bytes))
          => /\ peak_allocations' = peak_allocations
             /\ peak_allocated_bytes' = peak_allocated_bytes]_vars

\* C4's case: an add_allocation below the peak has changed current_allocations
\* and the snapshot differs from it.
C4_Witness ==
    /\ last.op = "add_allocation"
    /\ ~last.new_peak
    /\ peak_allocations # current_allocations
    /\ peak_allocations # EmptyMap

\* C5: in every reachable state peak_allocated_bytes is the sum of the sizes
\* of the records in peak_allocations.
C5_PeakBytesMatchSnapshot ==
    peak_allocated_bytes = SumSizes(peak_allocations, DOMAIN peak_allocations)

\* C6: peak monotonicity: no add_allocation or free_allocation step
\* decreases peak_allocated_bytes.
C6_PeakMonotone ==
    [][\A thread \in Threads :
          (\/ \E address \in FreedAddresses : IsFree(thread, address)
           \/ \E address \in Addresses, size \in Sizes :
                  IsAdd(thread, address, size))
          => peak_allocated_bytes' >= peak_allocated_bytes]_vars

\* C6's case: an add_allocation on an address already present has raised a
\* peak that was not zero.
C6_Witness ==
    /\ last.op = "add_allocation"
    /\ last.present
    /\ last.new_peak
    /\ peak_allocated_bytes = 2

\* The text a peak record's call stack renders to, with the tracker's
\* reverse map.
Rendered(address) ==
    Callstack_as_string(peak_allocations[address].callstack,
                        CallSites_get_reverse_map(ALLOCATIONS.call_sites))

\* The tracker the test combine_callstacks_and_sum_allocations builds
\* (memorytracking.rs:411-431): call sites a:af, b:bf, c:cf; 1000 and 50000
\* bytes under [a:af, b:bf], 234 bytes under [c:cf].
ExampleTracker ==
    LET r1 == CallSites_get_or_insert_id(CallSites_new,
                                         CallSite_new(<<"a">>, <<"a", "f">>))
        r2 == CallSites_get_or_insert_id(r1.call_sites,
                                         CallSite_new(<<"b">>, <<"b", "f">>))
        r3 == CallSites_get_or_insert_id(r2.call_sites,
                                         CallSite_new(<<"c">>, <<"c", "f">>))
        cs1 == Callstack_start_call(Callstack_start_call(Callstack_new, r1.id), r2.id)
        cs2 == Callstack_start_call(Callstack_new, r3.id)
        t0 == [AllocationTracker_new EXCEPT !.call_sites = r3.call_sites]
        t1 == AllocationTracker_add_allocation(t0, 1, 1000, cs1)
        t2 == AllocationTracker_add_allocation(t1, 2, 234, cs2)
    IN  AllocationTracker_add_allocation(t2, 3, 50000, cs1)

\* What that test expects: {"a:af;b:bf": 51000, "c:cf": 234}.
ExampleExpected ==
    [key \in { <<"a", ":", "a", "f", ";", "b", ":", "b", "f">>,
               <<"c", ":", "c", "f">> } |->
        IF key = <<"c", ":", "c", "f">> THEN 234 ELSE 51000]

\* C7: aggregation correctness: whenever combine_callstacks returns, the keys
\* of the mapping are exactly the rendered call stacks of the records in
\* peak_allocations, and the value of each key is the sum of the sizes of all
\* peak records whose call stack renders to that key; and on the example
\* tracker it returns {"a:af;b:bf": 51000, "c:cf": 234}.
C7_AggregationCorrect ==
    /\ AllocationTracker_combine_callstacks(ExampleTracker)
           = [ok |-> TRUE, by_call |-> ExampleExpected]
    /\ (last.op = "combine_callstacks" /\ last.result.ok)
       => LET by_call == last.result.by_call
          IN  /\ \A a \in DOMAIN peak_allocations : Rendered(a).ok
              /\ DOMAIN by_call =
                     {Rendered(a).string : a \in DOMAIN peak_allocations}
              /\ \A key \in DOMAIN by_call :
                     by_call[key] =
                         SumSizes(peak_allocations,
                                  {a \in DOMAIN peak_allocations :
                                       Rendered(a).string = key})

\* C7's case: combine_callstacks has returned for a snapshot that differs
\* from the live allocations and holds two records with different call
\* stacks, two frames deep in one of them, that render to the same string.
C7_Witness ==
    /\ last.op = "combine_callstacks"
    /\ last.result.ok
    /\ peak_allocations # current_allocations
    /\ \E a, b \in DOMAIN peak_allocations :
           /\ a # b
           /\ peak_allocations[a].callstack # peak_allocations[b].callstack
           /\ Len(peak_allocations[a].callstack) = 2
           /\ Rendered(a).string = Rendered(b).string
           /\ last.result.by_call[Rendered(a).string] = 2

\* C8: freeing an unknown address is a no-op: a free_allocation of an address
\* that is not a key of current_allocations leaves the whole tracker (both
\* maps, both totals, the registry) unchanged.
C8_FreeUnknownNoOp ==
    [][\A thread \in Threads, address \in FreedAddresses :
          (IsFree(thread, address) /\ address \notin DOMAIN current_allocations)
          => ALLOCATIONS' = ALLOCATIONS]_vars

\* The call of combine_callstacks does not return: a peak record holds an
\* identifier that the registry, emptied by a reset, no longer maps.
CombinePanics == last.op = "combine_callstacks" /\ ~last.result.ok

\* C8's case: free_allocation was just called on an unknown address while
\* the tracker held a record, a non-zero total and a registered call site.
C8_Witness ==
    /\ last.op = "free_allocation"
    /\ ~last.present
    /\ current_allocations # EmptyMap
    /\ current_allocated_bytes > 0
    /\ ALLOCATIONS.call_sites.max_id > 0

(***************************************************************************)
(* Properties of the range map.                                            *)
(***************************************************************************)
\* The (address, value) pairs covered by the stored intervals.
Covered(ranges) ==
    UNION { {<<a, ranges[k][2]>> : a \in AddressesOf(ranges[k][1])} :
            k \in 1..Len(ranges) }

\* The (address, value) pairs of the per-address reference map.
Contents(items) == {<<a, items[a]>> : a \in DOMAIN items}

\* No two stored intervals share an address.
NoOverlap(ranges) ==
    \A j, k \in 1..Len(ranges) :
        j # k => AddressesOf(ranges[j][1]) \cap AddressesOf(ranges[k][1]) = {}

\* Every stored interval [start, end) has end > start.
NoEmptyInterval(ranges) ==
    \A k \in 1..Len(ranges) : ranges[k][1].end > ranges[k][1].start

\* C9: equivalence to the per-byte reference: as long as no add has covered
\* an address stored at the time of the add, after every call size() is the
\* number of addresses the reference holds, the stored intervals cover
\* exactly the reference's (address, value) pairs, and a remove has returned
\* the count the reference's remove returned.
C9_RangeMapMatchesReference ==
    adds_disjoint
    => /\ RangeMap_size(real_rangemap) = StupidRangeMap_size(stupid_rangemap)
       /\ Covered(real_rangemap) = Contents(stupid_rangemap)
       /\ range_last.op = "remove" => range_last.removed1 = range_last.removed2

\* C9's case: after disjoint adds of two values, a remove has cut bytes out
\* of the middle of one interval, leaving two fragments of it and an
\* interval of the other value.
C9_Witness ==
    /\ adds_disjoint
    /\ range_last.op = "remove"
    /\ range_last.removed1 >= 1
    /\ Len(real_rangemap) = 3
    /\ \E j, k \in 1..Len(real_rangemap) :
           /\ j # k
           /\ real_rangemap[j][2] = real_rangemap[k][2]
           /\ real_rangemap[j][1].end < real_rangemap[k][1].start
    /\ \E j, k \in 1..Len(real_rangemap) :
           real_rangemap[j][2] # real_rangemap[k][2]

\* C10 as stated: after any sequence of add and remove calls no two stored
\* intervals overlap and every stored interval has end > start.
C10_DisjointNonEmpty ==
    NoOverlap(real_rangemap) /\ NoEmptyInterval(real_rangemap)

\* C10 as amended: after any sequence of add and remove calls every stored
\* interval has end > start, and no two stored intervals overlap as long as
\* no add has covered an address stored at the time of the add.
C10_DisjointIfAddsDisjoint ==
    /\ NoEmptyInterval(real_rangemap)
    /\ adds_disjoint => NoOverlap(real_rangemap)

\* C10's case: adds that overlap nothing and a remove that split an interval
\* have left the maximal number of intervals, pairwise disjoint.
C10_Witness ==
    /\ adds_disjoint
    /\ range_last.op = "remove"
    /\ range_last.removed1 > 0
    /\ Len(real_rangemap) > MaxRanges
    /\ NoOverlap(real_rangemap)

(***************************************************************************)
(* Properties of RangeMap::add and RangeMap::remove as single calls.       *)
(***************************************************************************)
\* The number of addresses the stored intervals share with
\* [start, start + length), each interval counted on its own.
RECURSIVE SumIntersections(_, _, _)
SumIntersections(ranges, start, length) ==
    IF ranges = << >> THEN 0
    ELSE Cardinality(AddressesOf(Head(ranges)[1])
                         \cap (start..(start + length - 1)))
         + SumIntersections(Tail(ranges), start, length)

\* The map of the example: add(0, 10, X) on an empty map.
ExampleRangeMap == RangeMap_add(RangeMap_new, 0, 10, "X")

\* C11: a remove(start, length) with length > 0 returns the number of bytes
\* it removed: the sum over the stored intervals of the size of their
\* intersection with [start, start + length), which is size() before the
\* call minus size() after it, and 0 when no interval is intersected; on
\* the map of add(0, 10, X), remove(3, 4) returns 4.
C11_RemoveReturnsBytesRemoved ==
    [][ /\ RangeMap_remove(ExampleRangeMap, 3, 4).removed = 4
        /\ \A start \in Starts, length \in Lengths :
               (length > 0 /\ remove(start, length))
               => /\ range_last'.removed1
                        = SumIntersections(real_rangemap, start, length)
                  /\ range_last'.removed1
                        = RangeMap_size(real_rangemap)
                              - RangeMap_size(real_rangemap') ]_vars

\* C11's case: a remove has returned a count other than the length it was
\* called with, having cut bytes out of two stored intervals at once.
C11_Witness ==
    /\ range_last.op = "remove"
    /\ range_last.length > 0
    /\ range_last.removed1 > range_last.length
    /\ Len(real_rangemap) >= 2

\* C18: a request of length 0 is a no-op: add(start, 0, value) leaves the
\* stored intervals unchanged, and remove(start, 0) returns 0 and leaves
\* the stored intervals unchanged.
C18_ZeroLengthNoOp ==
    [][ \A start \in Starts :
            /\ (\E value \in Values : add(start, 0, value))
               => real_rangemap' = real_rangemap
            /\ remove(start, 0)
               => /\ real_rangemap' = real_rangemap
                  /\ range_last'.removed1 = 0 ]_vars

\* C18's case: a remove of length 0 has been made on a map that holds
\* intervals.
C18_Witness ==
    /\ range_last.op = "remove"
    /\ range_last.length = 0
    /\ range_last.removed1 = 0
    /\ Len(real_rangemap) >= 1

\* The set difference of one stored interval and [start, start + length),
\* as intervals in ascending order: the addresses below start, then the
\* addresses from start + length on.
Fragments(range, value, start, length) ==
    LET below == {a \in AddressesOf(range) : a < start}
        above == {a \in AddressesOf(range) : a >= start + length}
        Lowest(S) == CHOOSE a \in S : \A b \in S : a <= b
        Highest(S) == CHOOSE a \in S : \A b \in S : a >= b
        Interval(S) == <<[start |-> Lowest(S), end |-> Highest(S) + 1], value>>
    IN  (IF below = {} THEN << >> ELSE <<Interval(below)>>)
        \o (IF above = {} THEN << >> ELSE <<Interval(above)>>)

\* The fragments of every stored interval, in the order of the intervals.
RECURSIVE AllFragments(_, _, _)
AllFragments(ranges, start, length) ==
    IF ranges = << >> THEN << >>
    ELSE Fragments(Head(ranges)[1], Head(ranges)[2], start, length)
         \o AllFragments(Tail(ranges), start, length)

\* C19: a remove(start, length) with length > 0 rewrites each stored
\* interval on its own to its set difference with [start, start + length):
\* an interval that does not intersect it is kept as it is, one inside it
\* is dropped, one overlapping at its start or end keeps one fragment, one
\* containing it strictly keeps the two fragments [range.start, start) and
\* [start + length, range.end); every fragment has the interval's value and
\* a positive length, and no address outside [start, start + length) is
\* lost.
C19_RemoveIsSetDifference ==
    [][ \A start \in Starts, length \in Lengths :
            (length > 0 /\ remove(start, length))
            => /\ real_rangemap' = AllFragments(real_rangemap, start, length)
               /\ NoEmptyInterval(real_rangemap) => NoEmptyInterval(real_rangemap')
               /\ Covered(real_rangemap')
                      = {p \in Covered(real_rangemap) :
                            p[1] \notin start..(start + length - 1)} ]_vars

\* C19's case: a remove of one byte has split an interval in two fragments
\* of its value, one byte apart.
C19_Witness ==
    /\ range_last.op = "remove"
    /\ range_last.length = 1
    /\ range_last.removed1 >= 1
    /\ \E j \in 1..Len(real_rangemap) :
           /\ j < Len(real_rangemap)
           /\ real_rangemap[j][2] = real_rangemap[j + 1][2]
           /\ real_rangemap[j][1].end + 1 = real_rangemap[j + 1][1].start

(***************************************************************************)
(* Properties of the CallSites registry.                                   *)
(***************************************************************************)
\* C15: over any sequence of get_or_insert_id calls on one registry, calls
\* with equal call sites have returned the same identifier whatever was
\* inserted in between, calls with call sites that differ in the module
\* name or in the function name have returned different identifiers, and so
\* no identifier handed out was later given to another call site.
C15_RegistryDeterministic ==
    /\ \A p, q \in handed_out : (p[1] = q[1]) <=> (p[2] = q[2])
    /\ id_last.op = "get_or_insert_id"
       => <<id_last.call_site, id_last.id>> \in handed_out

\* C15's case: the first call site registered has been asked for again
\* after call sites differing from it in the module name only and in the
\* function name only were registered, and got its identifier 0 again.
C15_Witness ==
    /\ id_last.op = "get_or_insert_id"
    /\ id_last.known
    /\ id_last.id = 0
    /\ \E p, q \in handed_out :
           /\ p[1].module_name # id_last.call_site.module_name
           /\ p[1].function_name = id_last.call_site.function_name
           /\ q[1].module_name = id_last.call_site.module_name
           /\ q[1].function_name # id_last.call_site.function_name

(***************************************************************************)
(* Properties of free_allocation on any tracker.                           *)
(***************************************************************************)
\* C20: free_allocation never underflows: a call that removes a present
\* record of size s leaves current_allocated_bytes at its value minus s if
\* s is at most that value and at 0 otherwise; the result is never below 0
\* (never a wrapped-around difference) nor above the value before.
C20_FreeNeverUnderflows ==
    [][ \A thread \in Threads, address \in FreedAddresses :
            (IsFree(thread, address) /\ address \in DOMAIN current_allocations)
            => LET s == current_allocations[address].size
               IN  /\ current_allocated_bytes' =
                          IF s <= current_allocated_bytes
                          THEN current_allocated_bytes - s
                          ELSE 0
                   /\ current_allocated_bytes' >= 0
                   /\ current_allocated_bytes' <= current_allocated_bytes ]_vars

\* C20's case: one record has been freed whose size was above the total,
\* and the total is 0.
C20_Witness ==
    /\ last.op = "free_allocation"
    /\ last.present
    /\ \E address \in DOMAIN peak_allocations :
           /\ DOMAIN peak_allocations \ DOMAIN current_allocations = {address}
           /\ peak_allocations[address].size > peak_allocated_bytes
    /\ current_allocated_bytes = 0

(***************************************************************************)
(* Properties of the public API called by two threads.                     *)
(***************************************************************************)
\* The thread is between its lock() and the drop of its guard.
UnderLock(thread) ==
    pc[thread].at \in {"get_or_insert_id", "push", "insert", "add_bytes",
                       "peak", "remove", "sub_bytes", "assign", "directory",
                       "combine", "write", "unlock"}

\* The thread is at a statement that writes the tracker.
InBody(thread) ==
    pc[thread].at \in {"get_or_insert_id", "insert", "add_bytes", "peak",
                       "remove", "sub_bytes", "assign"}

\* C12: atomicity under the single lock: whenever no thread is in the
\* middle of the statements that write the tracker, the shared tracker
\* (current_allocations, peak_allocations, both totals, the registry) is
\* the tracker obtained by running the calls made so far whole, one at a
\* time, in the order in which they took the lock; and two threads are never
\* between lock and unlock at once.
C12_SerialInLockOrder ==
    /\ (\A thread \in LockThreads : ~InBody(thread)) => ALLOCATIONS = serial
    /\ \A t, u \in LockThreads : (UnderLock(t) /\ UnderLock(u)) => t = u

\* C12's case: a thread is half way through add_allocation (record
\* inserted and counted, peak not yet updated, so the tracker is not the
\* serial one) while the other thread, which has called reset, waits for
\* the lock.
C12_Witness ==
    \E t, u \in LockThreads :
        /\ t # u
        /\ pc[t].op = "add_allocation" /\ pc[t].at = "peak"
        /\ ALLOCATIONS # serial
        /\ pc[u].op = "reset" /\ pc[u].at = "lock"

\* C13: reset replaces the whole tracker at once: when reset is about to
\* return, both maps are empty, both totals are 0 and the registry is empty
\* with max_id 0; and from its assignment to its return the resetting
\* thread holds the mutex and no other thread is between lock and unlock,
\* so no other thread's operation runs on a partly reset tracker.
C13_ResetIsWhole ==
    \A t \in LockThreads :
        (pc[t].op = "reset" /\ pc[t].at \in {"assign", "unlock"})
        => /\ mutex.holder = t
           /\ \A u \in LockThreads \ {t} : ~UnderLock(u)
           /\ pc[t].at = "unlock"
              => /\ ALLOCATIONS = AllocationTracker_new
                 /\ current_allocations = EmptyMap
                 /\ peak_allocations = EmptyMap
                 /\ current_allocated_bytes = 0
                 /\ peak_allocated_bytes = 0
                 /\ ALLOCATIONS.call_sites.max_id = 0
                 /\ DOMAIN ALLOCATIONS.call_sites.callsite_to_id = {}

\* C13's case: a reset has assigned and not yet returned, while the other
\* thread, whose call stack holds an identifier of the registry that was
\* just replaced, waits for the lock with an allocation to record.
C13_Witness ==
    \E t, u \in LockThreads :
        /\ t # u
        /\ pc[t].op = "reset" /\ pc[t].at = "unlock"
        /\ pc[u].op = "add_allocation" /\ pc[u].at = "lock"
        /\ pc[u].callstack # Callstack_new

\* C14: call stacks are recorded by copy and are private to their thread:
\* the record that add_allocation inserts holds the calling thread's own
\* call stack, whatever the other thread pushed or popped meanwhile, and no
\* push of start_call and no pop of finish_call, by any thread, changes a
\* record of current_allocations or of peak_allocations.
C14_CallstackCopiedAndPrivate ==
    [][ \A t \in LockThreads :
            /\ add_allocation_insert(t)
               => current_allocations'[pc[t].address].callstack
                      = THREAD_CALLSTACK[t]
            /\ (start_call_push(t) \/ finish_call_pop(t))
               => /\ current_allocations' = current_allocations
                  /\ peak_allocations' = peak_allocations ]_vars

\* C14's case: a record made under a call stack of one frame is still
\* stored with that call stack, in the live map and in the peak snapshot,
\* after every thread's call stack has become empty.
C14_Witness ==
    /\ \E address \in DOMAIN current_allocations :
           /\ current_allocations[address].callstack # Callstack_new
           /\ address \in DOMAIN peak_allocations
           /\ peak_allocations[address].callstack # Callstack_new
    /\ \A t \in LockThreads : THREAD_CALLSTACK[t] = Callstack_new
    /\ \A t \in LockThreads : pc[t] = Idle

\* C16 as stated: every function that takes the lock releases it on every
\* exit path, the no-op free and the fatal export included, so that under
\* fair scheduling every thread that calls a function and waits for the
\* lock gets the lock and completes its call.
C16_EveryCallCompletes ==
    /\ [](\A t \in LockThreads : ~InCall(t) => mutex.holder # t)
    /\ \A t \in LockThreads : (pc[t].at = "lock") ~> (pc[t].at = "idle")

\* C16 as amended: a thread that is in none of the functions does not hold
\* the mutex, whichever way it left (return, no-op free, panic of the
\* export), and under fair scheduling every thread waiting for the lock
\* completes its call unless the mutex has been poisoned by an export that
\* panicked under the lock, after which lock().unwrap() panics.
C16_CallCompletesUnlessPoisoned ==
    /\ [](\A t \in LockThreads : ~InCall(t) => mutex.holder # t)
    /\ [](\A t \in LockThreads : pc[t].at = "panicked_lock" => mutex.poisoned)
    /\ \A t \in LockThreads :
           (pc[t].at = "lock") ~> (pc[t].at = "idle" \/ mutex.poisoned)

\* C16's case: a thread is at the end of a free of an unknown address,
\* still holding the mutex, while the other thread waits for the lock on a
\* mutex that is not poisoned.
C16_Witness ==
    \E t, u \in LockThreads :
        /\ t # u
        /\ pc[t].op = "free_allocation" /\ pc[t].at = "unlock"
        /\ pc[t].address \notin LockAddresses
        /\ mutex = [holder |-> t, poisoned |-> FALSE]
        /\ pc[u].at = "lock"

\* The case the amendment of C16 sets apart: an export has panicked at the
\* directory check, and the other thread's free_allocation has panicked at
\* lock().unwrap() on the poisoned mutex, which nobody holds.
CallDiesAtPoisonedLock ==
    \E t, u \in LockThreads :
        /\ t # u
        /\ pc[t].at = "panicked_directory"
        /\ pc[u].at = "panicked_lock"
        /\ pc[u].op = "free_allocation"
        /\ mutex = [holder |-> "none", poisoned |-> TRUE]

\* C17: export failures are reported, not propagated, and independent: once
\* the directory check has passed, every step of the export leaves the
\* tracker unchanged and goes on to the next statement, and the export gets
\* to its end having tried to write the raw data, the flame graph and the
\* reversed flame graph, each once and in that order, whichever of them
\* failed.
C17_ExportWritesAllThree ==
    [][ \A t \in LockThreads :
            (/\ pc[t].op = "dump_peak_to_flamegraph"
             /\ pc[t].at \in {"combine", "write"}
             /\ pc'[t] # pc[t])
            => /\ ALLOCATIONS' = ALLOCATIONS
               /\ pc'[t].at \in {"write", "unlock"}
               /\ pc'[t].at = "unlock" => pc'[t].attempts = ExportFiles ]_vars

(***************************************************************************)
(* Further properties of the tracker's totals, of the identifiers in the   *)
(* peak snapshot, and of the range map's stored intervals.                 *)
(***************************************************************************)
\* C21: in every reachable state current_allocated_bytes is at least the
\* sum of the sizes of the records in current_allocations, so no record
\* that free_allocation could remove is larger than current_allocated_bytes
\* and the clamp-to-zero branch is never taken.
C21_TotalCoversRecords ==
    /\ current_allocated_bytes
           >= SumSizes(current_allocations, DOMAIN current_allocations)
    /\ \A address \in DOMAIN current_allocations :
           ~(current_allocations[address].size > current_allocated_bytes)

\* C21's case: after repeated adds on one address a record has been freed
\* by subtraction, and the total is still above the sum of the records
\* that are left.
C21_Witness ==
    /\ last.op = "free_allocation"
    /\ last.present
    /\ current_allocated_bytes
           > SumSizes(current_allocations, DOMAIN current_allocations)
    /\ current_allocated_bytes
           > SumSizes(current_allocations, DOMAIN current_allocations)

\* C22: in every reachable state every call-site identifier in the
\* callstack of a record of peak_allocations is an identifier of the
\* tracker's current registry, so it is in the reverse map and
\* combine_callstacks renders every peak record.
C22_PeakIdsResolve ==
    /\ \A address \in DOMAIN peak_allocations :
           \A k \in 1..Len(peak_allocations[address].callstack) :
               peak_allocations[address].callstack[k]
                   \in DOMAIN CallSites_get_reverse_map(ALLOCATIONS.call_sites)
    /\ AllocationTracker_combine_callstacks(ALLOCATIONS).ok

\* The stored intervals have pairwise different start addresses.
DistinctStarts(ranges) ==
    \A j, k \in 1..Len(ranges) :
        j # k => ranges[j][1].start # ranges[k][1].start

\* C23: as long as every add of positive length covered only addresses no
\* stored interval covered at the time (addresses freed by an earlier
\* remove included), after every add and remove the stored intervals are
\* pairwise disjoint with different start addresses, and as_hashmap has
\* exactly one entry per stored interval: that interval's size and value
\* under its start.
C23_DisjointDistinctStarts ==
    adds_disjoint
    => /\ NoOverlap(real_rangemap)
       /\ DistinctStarts(real_rangemap)
       /\ Cardinality(DOMAIN RangeMap_as_hashmap(real_rangemap))
              = Len(real_rangemap)
       /\ \A k \in 1..Len(real_rangemap) :
              RangeMap_as_hashmap(real_rangemap)[real_rangemap[k][1].start]
                  = <<Range_size(real_rangemap[k][1]), real_rangemap[k][2]>>

\* C23's case: an add has just stored an interval on addresses that an
\* earlier remove had freed, right below the fragment that remove left.
C23_Witness ==
    /\ adds_disjoint
    /\ range_last.op = "add"
    /\ range_last.length > 0
    /\ Len(real_rangemap) = 2
    /\ real_rangemap[1][1].start > MaxStart
    /\ real_rangemap[2][1].end = real_rangemap[1][1].start

====
